---- MODULE Spec2Model ----
(***************************************************************************)
(* A model of the weather application: the App container with its ordered  *)
(* collection of cities (add / delete), the WeatherSwiper pager with its   *)
(* activeIndex, the per-city WeatherPage fetch state (loading / error /    *)
(* weatherData), the process-wide preferences (units, locale) and the     *)
(* MenuScreen of the Modal: its rows (CityListItem), its debounced search  *)
(* for suggestions and the scroll that a selection or an add asks for.     *)
(*                                                                         *)
(* Strings are sequences of one-character strings, so that trim(),         *)
(* toLowerCase() and the template strings are computed and not assumed.    *)
(* Names are abbreviated to their first letter: <<"I", ",", " ", "U">>     *)
(* stands for 'Irvine, US', <<"L", ",", " ", "G">> for 'London, GB' and    *)
(* <<"T", ",", " ", "J">> for 'Tokyo, JP'.                                 *)
(*                                                                         *)
(* React state and the closures of a render are kept apart: `cities` is    *)
(* the state held by useState, `closure` the value of `cities` that the    *)
(* handlers created by the latest render close over (and that the FlatList *)
(* was given as data).  A commit (re-render) copies the one to the other,  *)
(* mounts the pages of new keys and unmounts the pages of removed keys.    *)
(***************************************************************************)
EXTENDS Integers, Sequences, FiniteSets, TLC

VARIABLES
    cities,       \* App: useState<City[]>, the state itself
    closure,      \* App: `cities` as captured by the handlers of the latest render
    units,        \* App: useState<UnitSystem>
    locale,       \* App: useState(i18n.locale)
    activeIndex,  \* WeatherSwiper: useState(0)
    pending,      \* App: state updates queued since the latest render
    alert,        \* title of the Alert.alert raised by the latest handler, "" if none
    pages,        \* mounted WeatherPage instances, by FlatList key (city id)
    fetches,      \* fetchWeather calls whose network requests have not all returned
    isMenuVisible, \* App: useState(false), the Modal that holds the MenuScreen
    rows,         \* mounted CityListItem instances of the menu, by FlatList key
    rowFetches,   \* fetchCityWeather calls whose request has not returned
    searchInput,  \* MenuScreen: useState('')
    suggestions,  \* MenuScreen: useState<Suggestion[]>([])
    timers,       \* MenuScreen: the pending setTimeout callbacks of the debounce effect,
                  \* each with the text it will look up, in the order they were set
    lookups,      \* fetchSuggestions calls whose request has not returned
    lookupCount,  \* number of requests fetchSuggestions has made since the menu opened
    scrollTimers, \* App: number of pending setTimeout callbacks of addCity
    scrollTo      \* FlatList: the index a scrollToEnd / scrollToIndex is moving to

menuVars == <<searchInput, suggestions, timers, lookups, lookupCount>>

scrollVars == <<scrollTimers, scrollTo>>

vars ==
    <<cities, closure, pending, units, locale, activeIndex, alert, pages, fetches,
      isMenuVisible, rows, rowFetches, searchInput, suggestions, timers, lookups,
      lookupCount, scrollTimers, scrollTo>>

-----------------------------------------------------------------------------
(* Bounds of the model *)

MaxCities == 4     \* no add grows the collection beyond this many cities
MaxFetches == 2    \* fetches one page instance starts at most
MaxBatch == 2      \* state updates queued between two renders at most
MaxTimers == 2     \* setTimeout callbacks of addCity pending at most
MaxLookups == 2    \* requests fetchSuggestions makes at most while the menu is open

-----------------------------------------------------------------------------
(* Strings *)

\* `${name}, ${country}` and `${name},${country}`
CommaSpace(name, country) == name \o <<",", " ">> \o country
Comma(name, country) == name \o <<",">> \o country

\* The identifiers handed to addCity: empty and blank ones, 'London, GB' as it is
\* stored, in another case and with surrounding blanks, and two places that are not
\* among the initial cities ('Paris, FR', and 'Paris' without a country).
Identifiers ==
    { <<>>, <<" ">>,
      CommaSpace(<<"L">>, <<"G">>), CommaSpace(<<"l">>, <<"g">>),
      <<" ">> \o CommaSpace(<<"l">>, <<"g">>), CommaSpace(<<"L">>, <<"G">>) \o <<" ">>,
      CommaSpace(<<"P">>, <<"F">>), CommaSpace(<<"p">>, <<"f">>),
      <<" ">> \o CommaSpace(<<"P">>, <<"F">>) \o <<" ">>,
      <<"P">> }

LowerChar(c) ==
    CASE c = "F" -> "f"
      [] c = "G" -> "g"
      [] c = "I" -> "i"
      [] c = "J" -> "j"
      [] c = "L" -> "l"
      [] c = "P" -> "p"
      [] c = "T" -> "t"
      [] c = "U" -> "u"
      [] OTHER -> c

toLowerCase(s) == [i \in 1..Len(s) |-> LowerChar(s[i])]

RECURSIVE trimStart(_)
trimStart(s) ==
    IF s # <<>> /\ Head(s) = " " THEN trimStart(Tail(s)) ELSE s

RECURSIVE trimEnd(_)
trimEnd(s) ==
    IF s # <<>> /\ s[Len(s)] = " " THEN trimEnd(SubSeq(s, 1, Len(s) - 1)) ELSE s

trim(s) == trimEnd(trimStart(s))

-----------------------------------------------------------------------------
(* Sequences *)

Ids(cs) == {cs[i].id : i \in 1..Len(cs)}

-----------------------------------------------------------------------------
(* App *)

City(id, name) == [id |-> id, name |-> name]

InitialCities ==
    << City(CommaSpace(<<"I">>, <<"U">>), Comma(<<"I">>, <<"U">>)),
       City(CommaSpace(<<"L">>, <<"G">>), Comma(<<"L">>, <<"G">>)),
       City(CommaSpace(<<"T">>, <<"J">>), Comma(<<"T">>, <<"J">>)) >>

UnitSystems == {"imperial", "metric"}

\* A locale is a language tag, kept as the sequence of its '-' separated subtags.
DeviceLocale == <<"en", "US">>
SelectableLocales == {<<"en">>, <<"es">>, <<"zh">>}

\* Mutant: the comparison without toLowerCase().
findCityExact(cs, newCityName) ==
    \E i \in 1..Len(cs) : cs[i].id = newCityName

\* cities.find(c => c.id.toLowerCase() === newCityName.toLowerCase())
findCity(cs, newCityName) ==
    \E i \in 1..Len(cs) : toLowerCase(cs[i].id) = toLowerCase(newCityName)

\* Mutant: addCity without trim().
addCityStateUntrimmed(seen, state, cityIdentifier) ==
    IF cityIdentifier # <<>> /\ ~findCity(seen, cityIdentifier)
    THEN Append(state, City(cityIdentifier, cityIdentifier))
    ELSE state

\* Mutant: addCity putting the new city first.
addCityStatePrepends(seen, state, cityIdentifier) ==
    LET newCityName == trim(cityIdentifier)
    IN  IF newCityName # <<>> /\ ~findCity(seen, newCityName)
        THEN <<City(newCityName, newCityName)>> \o state
        ELSE state

\* addCity: the value of the `cities` state after the call.  `seen` is the
\* `cities` of the closure, `state` the state the functional update is applied to.
addCityState(seen, state, cityIdentifier) ==
    LET newCityName == trim(cityIdentifier)
    IN  IF newCityName # <<>> /\ ~findCity(seen, newCityName)
        THEN Append(state, City(newCityName, newCityName))
        ELSE state

\* Whether addCity calls setCities.
addCitySets(seen, cityIdentifier) ==
    trim(cityIdentifier) # <<>> /\ ~findCity(seen, trim(cityIdentifier))

addCityAlert(seen, cityIdentifier) ==
    LET newCityName == trim(cityIdentifier)
    IN  IF newCityName # <<>> /\ ~findCity(seen, newCityName) THEN ""
        ELSE IF newCityName # <<>> THEN "City Exists"
        ELSE ""

\* addCity: the number of its setTimeout callbacks that are pending after the call.
addCityTimers(seen, cityIdentifier, n) ==
    IF addCitySets(seen, cityIdentifier) THEN n + 1 ELSE n

\* No scrollToEnd / scrollToIndex of the FlatList is under way.
NoScroll == -1

\* Mutant: the scroll going to the first item.
scrollToStart(data) == 0

\* flatListRef.current?.scrollToEnd(...): the index of the last item of the list.
scrollToEnd(data) == Len(data) - 1

\* handleCitySelect: cities.findIndex(c => c.id === cityId), from 0, -1 if none.
\* Mutant: the index counted from one.
findIndexFromOne(cs, cityId) ==
    IF \E i \in 1..Len(cs) : cs[i].id = cityId
    THEN CHOOSE i \in 1..Len(cs) :
             cs[i].id = cityId /\ \A j \in 1..(i - 1) : cs[j].id # cityId
    ELSE -1

findIndex(cs, cityId) ==
    IF \E i \in 1..Len(cs) : cs[i].id = cityId
    THEN (CHOOSE i \in 1..Len(cs) :
              cs[i].id = cityId /\ \A j \in 1..(i - 1) : cs[j].id # cityId) - 1
    ELSE -1

\* Mutant: deleteCity without the `cities.length <= 1` guard.
deleteCityStateUnguarded(seen, state, idToDelete) ==
    LET Keep(city) == city.id # idToDelete
    IN  SelectSeq(seen, Keep)

\* Mutant: deleteCity with the guard `cities.length < 1`.
deleteCityStateOffByOne(seen, state, idToDelete) ==
    LET Keep(city) == city.id # idToDelete
    IN  IF Len(seen) < 1 THEN state ELSE SelectSeq(seen, Keep)

\* Mutant: deleteCity with the test of its filter inverted.
deleteCityStateInverted(seen, state, idToDelete) ==
    LET Keep(city) == city.id = idToDelete
    IN  IF Len(seen) <= 1 THEN state ELSE SelectSeq(seen, Keep)

\* deleteCity: the value of the `cities` state after the call.
deleteCityState(seen, state, idToDelete) ==
    LET Keep(city) == city.id # idToDelete
    IN  IF Len(seen) <= 1 THEN state ELSE SelectSeq(seen, Keep)

\* deleteCity of the variant that names the entry by its position (from 0):
\* cities.filter((_, index) => index !== indexToDelete).
deleteCityAtIndexState(seen, state, indexToDelete) ==
    IF Len(seen) <= 1 THEN state
    ELSE SubSeq(seen, 1, indexToDelete) \o SubSeq(seen, indexToDelete + 2, Len(seen))

\* Whether deleteCity calls setCities.
deleteCitySets(seen) == ~(Len(seen) <= 1)

deleteCityAlert(seen) ==
    IF Len(seen) <= 1 THEN "Cannot Delete" ELSE ""

-----------------------------------------------------------------------------
(* WeatherPage *)

langCode(lang) == lang[1]                       \* lang.split('-')[0]

apiLang(lang) == IF langCode(lang) = "zh" THEN "zh_cn" ELSE langCode(lang)

\* What one fetchWeather call obtained, named by the call (its number on the page)
\* and by the units and the API language its weather request carried.
Result(f) == [seq |-> f.seq, units |-> f.units, lang |-> apiLang(f.lang)]

NoWeather == [seq |-> 0, units |-> "", lang |-> ""]     \* weatherData === null

\* The call whose completion wrote the state of a page last: which call it was, at
\* which request it ended and how that request came back.
Writer(f, outcome) ==
    [seq |-> f.seq, units |-> f.units, lang |-> apiLang(f.lang),
     stage |-> f.stage, outcome |-> outcome]

NoWriter == [seq |-> 0, units |-> "", lang |-> "", stage |-> "", outcome |-> ""]

\* How the geocoding request can come back: with candidates, with an empty list,
\* with a status that is not ok, or not at all (fetch or json() rejects).
GeoOutcomes == {"ok", "empty", "notOk", "throws"}

\* How the weather request can come back.
WeatherOutcomes == {"ok", "notOk", "throws"}

\* Mutant: the geocoding failures throw the message of the weather failure.
errorMessageOfWeather(stage, outcome) ==
    CASE outcome = "notOk" \/ outcome = "empty" -> "errorApiKey"
      [] OTHER -> "Network request failed"

\* Mutant: one message for whatever goes wrong after geocoding.
errorMessageGeneric(stage, outcome) ==
    CASE stage = "geo" /\ outcome \in {"empty", "notOk"} -> "errorCityNotFound"
      [] OTHER -> "errorDefault"

\* The message of the Error that reaches the catch block.
errorMessage(stage, outcome) ==
    CASE stage = "geo" /\ outcome \in {"empty", "notOk"} -> "errorCityNotFound"
      [] stage = "weather" /\ outcome = "notOk" -> "errorApiKey"
      [] OTHER -> "Network request failed"

\* A page right after its first render: the useState initial values.
MountedPage ==
    [weatherData |-> NoWeather, loading |-> TRUE, error |-> "",
     started |-> 0,     \* number of fetchWeather calls this instance has made
     writer |-> NoWriter]    \* the call whose completion wrote the state last

\* fetchWeather up to its first await: setLoading(true); setError(null).
startFetch(p) ==
    [p EXCEPT !.loading = TRUE, !.error = "", !.started = @ + 1]

\* The call that startFetch(p) begins, waiting for the geocoding response.
Request(id, p, u, l) ==
    [id |-> id, seq |-> p.started + 1, units |-> u, lang |-> l, stage |-> "geo"]

\* setWeatherData({...fetchedWeatherData, ...}); finally setLoading(false)
landSuccess(p, f) ==
    [p EXCEPT !.weatherData = Result(f), !.loading = FALSE, !.writer = Writer(f, "ok")]

\* Mutant: setLoading(false) at the end of the try block, not in a finally.
landFailureNoFinally(p, f, outcome) ==
    [p EXCEPT !.error = errorMessage(f.stage, outcome), !.writer = Writer(f, outcome)]

\* catch: setError(err.message); finally setLoading(false)
landFailure(p, f, outcome) ==
    [p EXCEPT !.error = errorMessage(f.stage, outcome), !.loading = FALSE,
              !.writer = Writer(f, outcome)]

\* What the page renders: {loading && ...} {error && ...} {weatherData && ...}
showsLoading(p) == p.loading
showsError(p) == p.error # ""
showsWeather(p) == p.weatherData # NoWeather

\* Mutant: fetchWeather depending on [city, units] only.
refetchesOnUnitsOnly(u, l, newUnits, newLocale) == u # newUnits

\* useEffect(() => fetchWeather(), [fetchWeather]) with fetchWeather depending on
\* [city, lang, units]: a mounted page calls it again when lang or units changed.
refetches(u, l, newUnits, newLocale) == u # newUnits \/ l # newLocale

-----------------------------------------------------------------------------
(* CityListItem: a row of the menu *)

\* A row right after its first render: the useState initial values.
MountedRow == [weather |-> "", loading |-> TRUE]

NoRows == [id \in {} |-> MountedRow]

\* The request of fetchCityWeather, made when the row mounts: `...&units=imperial&...`
RowRequest(id) == [id |-> id, units |-> "imperial"]

\* fetchCityWeather resumes: if (response.ok) setWeather(data); finally setLoading(false)
rowLands(row, r, outcome) ==
    [weather |-> IF outcome = "ok" THEN r.units ELSE row.weather, loading |-> FALSE]

-----------------------------------------------------------------------------
(* MenuScreen: the search for a city to add *)

\* The texts of the search field: empty, of two characters, of three and four, of
\* three with a leading blank, of four with a trailing blank.
Queries ==
    { <<>>, <<"L", "o">>, <<"L", "o", "n">>, <<"L", "o", "n", "d">>,
      <<" ", "L", "o">>, <<"L", "o", "n", " ">> }

Suggestion(name, country, state) == [name |-> name, country |-> country, state |-> state]

\* The lists the geocoding API answers a search with: none, two places, a place in
\* lower case, and two places listed twice each, for different states.
ApiAnswers ==
    { <<>>,
      << Suggestion(<<"L">>, <<"G">>, ""), Suggestion(<<"P">>, <<"F">>, "") >>,
      << Suggestion(<<"l">>, <<"g">>, "") >>,
      << Suggestion(<<"P">>, <<"F">>, "a"), Suggestion(<<"L">>, <<"G">>, ""),
         Suggestion(<<"P">>, <<"F">>, "b"), Suggestion(<<"L">>, <<"G">>, "c") >> }

\* Mutant: map.set(key, ...) without the test `!map.has(key)`: a Map keeps the
\* position of the first insertion of a key and the value of the last.
RECURSIVE uniqueFromOverwriting(_, _)
uniqueFromOverwriting(data, keys) ==
    IF data = <<>> THEN <<>>
    ELSE LET item == Head(data)
             key == Comma(item.name, item.country)
             last == CHOOSE i \in 1..Len(data) :
                         /\ Comma(data[i].name, data[i].country) = key
                         /\ \A j \in (i + 1)..Len(data) :
                                Comma(data[j].name, data[j].country) # key
         IN  IF key \in keys THEN uniqueFromOverwriting(Tail(data), keys)
             ELSE <<data[last]>> \o uniqueFromOverwriting(Tail(data), keys \cup {key})

\* data.forEach(item => { if (!map.has(key)) map.set(key, ...) }); Array.from(map.values())
RECURSIVE uniqueFrom(_, _)
uniqueFrom(data, keys) ==
    IF data = <<>> THEN <<>>
    ELSE LET item == Head(data)
             key == Comma(item.name, item.country)
         IN  IF key \in keys THEN uniqueFrom(Tail(data), keys)
             ELSE <<item>> \o uniqueFrom(Tail(data), keys \cup {key})

uniqueSuggestions(data) == uniqueFrom(data, {})

\* What `await fetch(url)` and `await response.json()` of a lookup come back with:
\* a list of candidates, a body that is null (or another falsy value), a body that
\* is not a list (the API's error object, whose forEach is undefined), or an
\* error thrown by fetch or by json().
LookupOutcomes == {"list", "null", "notAList", "throws"}

\* fetchSuggestions after its awaits: `if (data) { ... setSuggestions(...) }`, and
\* setSuggestions([]) in the catch.
suggestionsAfter(shown, outcome, data) ==
    CASE outcome = "list" -> uniqueSuggestions(data)
      [] outcome = "null" -> shown
      [] OTHER -> <<>>

\* Mutant: the effect without its cleanup `return () => clearTimeout(timer)`.
debounceNoCleanup(old, text) ==
    IF Len(trim(text)) > 2 THEN Append(old, text) ELSE old

\* Mutant: the effect testing the length of the text as typed.
debounceUntrimmed(old, text) ==
    IF Len(text) > 2 THEN <<text>> ELSE <<>>

\* The debounce effect, run when searchInput has become `text`: the cleanup of the
\* previous run clears the timer that run had set (`old` holds it, if it has not
\* fired), and a new one is set if the trimmed text has more than two characters.
debounce(old, text) ==
    IF Len(trim(text)) > 2 THEN <<text>> ELSE <<>>

\* The debounce effect: setSuggestions([]) in its else branch.
debounceSuggestions(shown, text) ==
    IF Len(trim(text)) > 2 THEN shown ELSE <<>>

\* fetchSuggestions: whether it goes on to the request.
fetchSuggestionsAsks(query) == ~(Len(query) < 3)

\* handleSelectSuggestion: savedCities.find(...), the first city that matches.
existingCity(cs, cityIdentifier) ==
    cs[CHOOSE i \in 1..Len(cs) :
          /\ toLowerCase(cs[i].id) = toLowerCase(cityIdentifier)
          /\ \A j \in 1..(i - 1) : toLowerCase(cs[j].id) # toLowerCase(cityIdentifier)]

-----------------------------------------------------------------------------
(* A commit: App re-renders, the FlatList is given the new data and props *)

\* Mutant: the FlatList mounting every page anew at each change of its data (as
\* it would with keys that are not the ids).
CommitPagesRemounting(ps, cs, u, l, newUnits, newLocale) ==
    [id \in Ids(cs) |->
        IF Ids(cs) # DOMAIN ps \/ refetches(u, l, newUnits, newLocale)
        THEN startFetch(MountedPage)
        ELSE ps[id]]

CommitPages(ps, cs, u, l, newUnits, newLocale) ==
    LET again == refetches(u, l, newUnits, newLocale)
    IN  [id \in Ids(cs) |->
            IF id \notin DOMAIN ps THEN startFetch(MountedPage)
            ELSE IF again THEN startFetch(ps[id])
            ELSE ps[id]]

\* Mutant: the calls of an unmounted page go on to write the state kept under
\* its id.
CommitFetchesKeepingOrphans(fs, ps, cs, u, l, newUnits, newLocale) ==
    LET ids == Ids(cs)
        again == refetches(u, l, newUnits, newLocale)
    IN  fs
        \cup {Request(id, MountedPage, newUnits, newLocale) : id \in ids \ DOMAIN ps}
        \cup {Request(id, ps[id], newUnits, newLocale) :
                 id \in {k \in ids \cap DOMAIN ps : again}}

CommitFetches(fs, ps, cs, u, l, newUnits, newLocale) ==
    LET ids == Ids(cs)
        again == refetches(u, l, newUnits, newLocale)
    IN  \* An unmounted page takes its calls with it: React ignores the setState calls
        \* of an unmounted instance, so nothing the program keeps depends on their
        \* responses.
        {f \in fs : f.id \in ids}
        \cup {Request(id, MountedPage, newUnits, newLocale) : id \in ids \ DOMAIN ps}
        \cup {Request(id, ps[id], newUnits, newLocale) :
                 id \in {k \in ids \cap DOMAIN ps : again}}

\* The rows of the menu: MenuScreen is mounted while the Modal is visible, and its
\* FlatList keeps one CityListItem per saved city.
CommitRows(rs, cs, visible) ==
    IF visible
    THEN [id \in Ids(cs) |-> IF id \in DOMAIN rs THEN rs[id] ELSE MountedRow]
    ELSE NoRows

CommitRowFetches(rfs, rs, cs, visible) ==
    IF visible
    THEN {r \in rfs : r.id \in Ids(cs)} \cup {RowRequest(id) : id \in Ids(cs) \ DOMAIN rs}
    ELSE {}

Commit ==
    /\ closure' = cities'
    /\ pending' = 0
    /\ pages' = CommitPages(pages, cities', units, locale, units', locale')
    /\ fetches' = CommitFetches(fetches, pages, cities', units, locale, units', locale')
    /\ rows' = CommitRows(rows, cities', isMenuVisible')
    /\ rowFetches' = CommitRowFetches(rowFetches, rows, cities', isMenuVisible')

-----------------------------------------------------------------------------
(* Initial state: the first render and its effects *)

Init ==
    /\ cities = InitialCities
    /\ closure = InitialCities
    /\ pending = 0
    /\ units = "imperial"
    /\ locale = DeviceLocale
    /\ activeIndex = 0
    /\ alert = ""
    /\ pages = [id \in Ids(InitialCities) |-> startFetch(MountedPage)]
    /\ fetches = {Request(id, MountedPage, "imperial", DeviceLocale) : id \in Ids(InitialCities)}
    /\ isMenuVisible = FALSE
    /\ rows = NoRows
    /\ rowFetches = {}
    /\ searchInput = <<>>
    /\ suggestions = <<>>
    /\ timers = <<>>
    /\ lookups = {}
    /\ lookupCount = 0
    /\ scrollTimers = 0
    /\ scrollTo = NoScroll

-----------------------------------------------------------------------------
(* Actions *)

\* App.addCity, followed by the commit of its state update.
addCity(cityIdentifier) ==
    /\ cities' = addCityState(closure, cities, cityIdentifier)
    /\ Len(cities') <= MaxCities
    /\ alert' = addCityAlert(closure, cityIdentifier)
    /\ scrollTimers' = addCityTimers(closure, cityIdentifier, scrollTimers)
    /\ scrollTimers' <= MaxTimers
    /\ UNCHANGED <<units, locale, activeIndex, isMenuVisible, menuVars, scrollTo>>
    /\ Commit

\* addCity is called with an identifier.
AddCity ==
    \E cityIdentifier \in Identifiers : addCity(cityIdentifier)

\* App.deleteCity, called by the trash button of a rendered CityListItem.
DeleteCity ==
    \E idToDelete \in Ids(closure) :
        /\ cities' = deleteCityState(closure, cities, idToDelete)
        /\ alert' = deleteCityAlert(closure)
        /\ UNCHANGED <<units, locale, activeIndex, isMenuVisible, menuVars, scrollVars>>
        /\ Commit

\* WeatherSwiper.onViewableItemsChanged: the FlatList reports its viewable items.
ViewableItemsChanged ==
    \E index \in 0..(Len(closure) - 1) :
        /\ activeIndex' = index
        /\ UNCHANGED <<cities, closure, pending, units, locale, alert, pages, fetches>>
        /\ UNCHANGED <<isMenuVisible, rows, rowFetches, menuVars, scrollVars>>

CanRefetch == \A id \in DOMAIN pages : pages[id].started < MaxFetches

\* SettingsScreen: onChangeUnits(u), that is App's setUnits.
ChangeUnits ==
    \E u \in UnitSystems \ {units} :
        /\ CanRefetch
        /\ units' = u
        /\ UNCHANGED <<cities, locale, activeIndex, alert, isMenuVisible, menuVars, scrollVars>>
        /\ Commit

\* App.changeLocale
ChangeLocale ==
    \E newLocale \in SelectableLocales \ {locale} :
        /\ CanRefetch
        /\ locale' = newLocale
        /\ UNCHANGED <<cities, units, activeIndex, alert, isMenuVisible, menuVars, scrollVars>>
        /\ Commit

\* Mutant: the state setters of one page reaching every page.
LandOnAll(f, p) ==
    /\ fetches' = fetches \ {f}
    /\ pages' = [id \in DOMAIN pages |-> p]

\* The state setters of the page that made the call f.
Land(f, p) ==
    /\ fetches' = fetches \ {f}
    /\ pages' = [pages EXCEPT ![f.id] = p]

\* fetchWeather resumes after `await fetch(geoUrl)` / `await geoResponse.json()`.
GeoResponse ==
    \E f \in fetches, outcome \in GeoOutcomes :
        /\ f.stage = "geo"
        /\ IF outcome = "ok"
           THEN /\ fetches' = (fetches \ {f}) \cup {[f EXCEPT !.stage = "weather"]}
                /\ pages' = pages
           ELSE Land(f, landFailure(pages[f.id], f, outcome))
        /\ UNCHANGED <<cities, closure, pending, units, locale, activeIndex, alert>>
        /\ UNCHANGED <<isMenuVisible, rows, rowFetches, menuVars, scrollVars>>

\* fetchWeather resumes after `await fetch(weatherUrl)` / `await weatherResponse.json()`.
WeatherResponse ==
    \E f \in fetches, outcome \in WeatherOutcomes :
        /\ f.stage = "weather"
        /\ IF outcome = "ok"
           THEN Land(f, landSuccess(pages[f.id], f))
           ELSE Land(f, landFailure(pages[f.id], f, outcome))
        /\ UNCHANGED <<cities, closure, pending, units, locale, activeIndex, alert>>
        /\ UNCHANGED <<isMenuVisible, rows, rowFetches, menuVars, scrollVars>>

\* MenuScreen unmounts with the Modal: its state, its timer and its requests go.
MenuUnmounts ==
    /\ searchInput' = <<>>
    /\ suggestions' = <<>>
    /\ timers' = <<>>
    /\ lookups' = {}
    /\ lookupCount' = 0

\* The callback of addCity's setTimeout: scrollToEnd, setMenuVisible(false).
ScrollTimeout ==
    /\ scrollTimers > 0
    /\ scrollTimers' = scrollTimers - 1
    /\ scrollTo' = scrollToEnd(closure)
    /\ isMenuVisible' = FALSE
    /\ MenuUnmounts
    /\ UNCHANGED <<cities, units, locale, activeIndex, alert>>
    /\ Commit

\* WeatherSwiper.onViewableItemsChanged at the end of a scrollToEnd / scrollToIndex:
\* the FlatList reports the item it has moved to.
ScrollArrives ==
    /\ scrollTo # NoScroll
    /\ activeIndex' = IF scrollTo < Len(closure) THEN scrollTo ELSE Len(closure) - 1
    /\ scrollTo' = NoScroll
    /\ UNCHANGED <<cities, closure, pending, units, locale, alert, pages, fetches>>
    /\ UNCHANGED <<isMenuVisible, rows, rowFetches, menuVars, scrollTimers>>

\* WeatherSwiper's menu button: onMenuPress, that is setMenuVisible(true).
OpenMenu ==
    /\ ~isMenuVisible
    /\ isMenuVisible' = TRUE
    /\ UNCHANGED <<cities, units, locale, activeIndex, alert, menuVars, scrollVars>>
    /\ Commit

\* MenuScreen's close button or the Modal's onRequestClose: setMenuVisible(false).
CloseMenu ==
    /\ isMenuVisible
    /\ isMenuVisible' = FALSE
    /\ MenuUnmounts
    /\ UNCHANGED <<cities, units, locale, activeIndex, alert, scrollVars>>
    /\ Commit

\* App.handleCitySelect, as its callers in the menu use it.
handleCitySelect(cityId) ==
    /\ scrollTo' = IF findIndex(closure, cityId) # -1
                   THEN findIndex(closure, cityId) ELSE scrollTo
    /\ isMenuVisible' = FALSE
    /\ MenuUnmounts
    /\ alert' = ""
    /\ UNCHANGED <<cities, units, locale, activeIndex, scrollTimers>>
    /\ Commit

\* A row of the menu is pressed: onSelect, that is onCitySelect(item.id).
CitySelect ==
    \E id \in DOMAIN rows :
        /\ isMenuVisible
        /\ handleCitySelect(id)

\* fetchCityWeather resumes after `await fetch(url)` / `await response.json()`.
RowResponse ==
    \E r \in rowFetches, outcome \in {"ok", "notOk", "throws"} :
        /\ rows' = [rows EXCEPT ![r.id] = rowLands(rows[r.id], r, outcome)]
        /\ rowFetches' = rowFetches \ {r}
        /\ UNCHANGED <<cities, closure, pending, units, locale, activeIndex, alert>>
        /\ UNCHANGED <<pages, fetches, isMenuVisible, menuVars, scrollVars>>

\* The text of the search field changes: onChangeText, that is setSearchInput, and
\* the debounce effect that the new text runs.
ChangeText ==
    \E text \in Queries \ {searchInput} :
        /\ isMenuVisible
        /\ debounce(timers, text) # <<>> => lookupCount < MaxLookups
        /\ searchInput' = text
        /\ timers' = debounce(timers, text)
        /\ suggestions' = debounceSuggestions(suggestions, text)
        /\ UNCHANGED <<cities, closure, pending, units, locale, activeIndex, alert>>
        /\ UNCHANGED <<pages, fetches, isMenuVisible, rows, rowFetches, scrollVars>>
        /\ UNCHANGED <<lookups, lookupCount>>

\* The callback of the debounce effect's setTimeout: fetchSuggestions(searchInput)
\* up to its first await.
DebounceTimeout ==
    \E i \in 1..Len(timers) :
        LET query == timers[i]
        IN  /\ timers' = SubSeq(timers, 1, i - 1) \o SubSeq(timers, i + 1, Len(timers))
            /\ IF fetchSuggestionsAsks(query)
               THEN /\ lookupCount' = lookupCount + 1
                    /\ lookups' = lookups \cup {[seq |-> lookupCount + 1, query |-> query]}
                    /\ suggestions' = suggestions
               ELSE /\ suggestions' = <<>>
                    /\ UNCHANGED <<lookups, lookupCount>>
            /\ UNCHANGED <<cities, closure, pending, units, locale, activeIndex, alert>>
            /\ UNCHANGED <<pages, fetches, isMenuVisible, rows, rowFetches, scrollVars>>
            /\ UNCHANGED searchInput

\* fetchSuggestions after `await fetch(url)` / `await response.json()` of the lookup
\* l: the state it leaves, by what came back.
fetchSuggestionsLands(l, outcome, data) ==
    /\ lookups' = lookups \ {l}
    /\ suggestions' = suggestionsAfter(suggestions, outcome, data)
    /\ UNCHANGED <<cities, closure, pending, units, locale, activeIndex, alert>>
    /\ UNCHANGED <<pages, fetches, isMenuVisible, rows, rowFetches, scrollVars>>
    /\ UNCHANGED <<searchInput, timers, lookupCount>>

\* The response to a lookup arrives.
SuggestionsResponse ==
    \E l \in lookups, outcome \in LookupOutcomes, data \in ApiAnswers :
        fetchSuggestionsLands(l, outcome, data)

\* MenuScreen.handleSelectSuggestion(city).
handleSelectSuggestion(city) ==
    LET cityIdentifier == CommaSpace(city.name, city.country)
    IN  IF findCity(closure, cityIdentifier)
        THEN handleCitySelect(existingCity(closure, cityIdentifier).id)
        ELSE /\ cities' = addCityState(closure, cities, cityIdentifier)
             /\ Len(cities') <= MaxCities
             /\ alert' = addCityAlert(closure, cityIdentifier)
             /\ scrollTimers' = addCityTimers(closure, cityIdentifier, scrollTimers)
             /\ scrollTimers' <= MaxTimers
             /\ searchInput' = <<>>
             /\ suggestions' = <<>>
             /\ timers' = debounce(timers, <<>>)
             /\ UNCHANGED <<units, locale, activeIndex, isMenuVisible, scrollTo>>
             /\ UNCHANGED <<lookups, lookupCount>>
             /\ Commit

\* A suggestion of the list is pressed: onPress, that is handleSelectSuggestion(item).
SelectSuggestion ==
    \E i \in 1..Len(suggestions) :
        /\ isMenuVisible
        /\ handleSelectSuggestion(suggestions[i])

Next ==
    \/ AddCity
    \/ DeleteCity
    \/ ViewableItemsChanged
    \/ ChangeUnits
    \/ ChangeLocale
    \/ GeoResponse
    \/ WeatherResponse
    \/ ScrollTimeout
    \/ ScrollArrives
    \/ OpenMenu
    \/ CloseMenu
    \/ CitySelect
    \/ RowResponse
    \/ ChangeText
    \/ DebounceTimeout
    \/ SuggestionsResponse
    \/ SelectSuggestion

Spec == Init /\ [][Next]_vars

\* The user edits the collection and swipes; preferences stay as they are and no
\* network response arrives.
NextCollection ==
    \/ AddCity
    \/ DeleteCity
    \/ ViewableItemsChanged
    \/ ScrollTimeout
    \/ ScrollArrives

SpecCollection == Init /\ [][NextCollection]_vars

\* An add followed by no other mutation of the collection and no navigation of the
\* user: the user acts only when no scroll of an add is pending or under way. The
\* timeout of addCity fires and the FlatList reports where its scroll has ended.
Quiet == scrollTimers = 0 /\ scrollTo = NoScroll

NextScroll ==
    \/ Quiet /\ AddCity
    \/ Quiet /\ DeleteCity
    \/ Quiet /\ ViewableItemsChanged
    \/ ScrollTimeout
    \/ ScrollArrives

SpecScroll ==
    Init /\ [][NextScroll]_vars /\ WF_vars(ScrollTimeout) /\ WF_vars(ScrollArrives)

\* The user changes preferences and deletes cities while the responses arrive.
NextFetch ==
    \/ DeleteCity
    \/ ChangeUnits
    \/ ChangeLocale
    \/ GeoResponse
    \/ WeatherResponse

SpecFetch == Init /\ [][NextFetch]_vars

\* The user changes the units while the responses arrive, and every request made
\* comes back at some time: with a response or with a failure.
NextReturns ==
    \/ ChangeUnits
    \/ GeoResponse
    \/ WeatherResponse

SpecReturns ==
    /\ Init
    /\ [][NextReturns]_vars
    /\ WF_vars(GeoResponse)
    /\ WF_vars(WeatherResponse)

\* Handler calls dispatched before React has re-rendered: they run with the
\* closure of the previous render, and their state updates are queued.
AddCityBatched ==
    \E cityIdentifier \in Identifiers :
        /\ cities' = addCityState(closure, cities, cityIdentifier)
        /\ Len(cities') <= MaxCities
        /\ alert' = addCityAlert(closure, cityIdentifier)
        /\ pending < MaxBatch
        /\ pending' = IF addCitySets(closure, cityIdentifier) THEN pending + 1 ELSE pending
        /\ scrollTimers' = addCityTimers(closure, cityIdentifier, scrollTimers)
        /\ scrollTimers' <= MaxTimers
        /\ UNCHANGED <<closure, units, locale, activeIndex, pages, fetches>>
        /\ UNCHANGED <<isMenuVisible, rows, rowFetches, menuVars, scrollTo>>

DeleteCityBatched ==
    \E idToDelete \in Ids(closure) :
        /\ cities' = deleteCityState(closure, cities, idToDelete)
        /\ alert' = deleteCityAlert(closure)
        /\ pending < MaxBatch
        /\ pending' = IF deleteCitySets(closure) THEN pending + 1 ELSE pending
        /\ UNCHANGED <<closure, units, locale, activeIndex, pages, fetches>>
        /\ UNCHANGED <<isMenuVisible, rows, rowFetches, menuVars, scrollVars>>

\* The re-render that the queued updates asked for.
Render ==
    /\ pending > 0
    /\ UNCHANGED <<cities, units, locale, activeIndex, alert, isMenuVisible, menuVars, scrollVars>>
    /\ Commit

NextBatched ==
    \/ AddCityBatched
    \/ DeleteCityBatched
    \/ Render
    \/ ScrollTimeout

SpecBatched == Init /\ [][NextBatched]_vars

\* The menu: the user opens and closes it, searches for a city, picks a suggestion
\* or a row, while the answers to the searches arrive.
NextMenu ==
    \/ OpenMenu
    \/ CloseMenu
    \/ ChangeText
    \/ DebounceTimeout
    \/ SuggestionsResponse
    \/ SelectSuggestion
    \/ CitySelect
    \/ ScrollTimeout
    \/ ScrollArrives

SpecMenu == Init /\ [][NextMenu]_vars

\* The collection changes while the responses arrive: cities are deleted and added,
\* among them 'London, GB', which is tracked at the start and can be added again
\* once it has been deleted.
Readded == { CommaSpace(<<"L">>, <<"G">>), <<"P">> }

NextChurn ==
    \/ \E cityIdentifier \in Readded : addCity(cityIdentifier)
    \/ DeleteCity
    \/ GeoResponse
    \/ WeatherResponse

SpecChurn == Init /\ [][NextChurn]_vars

\* The rows of the menu: the user opens and closes the menu, changes the units in
\* its settings and deletes rows, while the answers to the rows' requests arrive.
NextRows ==
    \/ OpenMenu
    \/ CloseMenu
    \/ ChangeUnits
    \/ DeleteCity
    \/ RowResponse

SpecRows == Init /\ [][NextRows]_vars

-----------------------------------------------------------------------------
(* LocationCollection: add and delete *)

Max(a, b) == IF a >= b THEN a ELSE b

\* Ids that a caller of deleteCity may name: those rendered, those typed, and others.
NamedIds == Ids(closure) \cup Ids(cities) \cup {trim(x) : x \in Identifiers}

\* C1: starting from the three initial cities, after any sequence of add and delete
\* calls, each applied to the result of the previous one, the collection holds at
\* least one location.
C1_AtLeastOneLocation == Len(cities) >= 1

\* A single location is left, an added one, and a delete of it was refused.
C1_Witness ==
    /\ Len(cities) = 1
    /\ cities[1].id \notin Ids(InitialCities)
    /\ alert = "Cannot Delete"

\* C2: no two locations of the collection have ids that are equal ignoring case,
\* after any sequence of add and delete calls each applied to the result of the
\* previous one.
C2_UniqueIds ==
    \A i, j \in 1..Len(cities) :
        i # j => toLowerCase(cities[i].id) # toLowerCase(cities[j].id)

\* A location was added, and an add of an id already there was refused.
C2_Witness ==
    /\ Len(cities) > Len(InitialCities)
    /\ alert = "City Exists"

\* C5: an add call never appends an identifier that the collection already holds
\* (ignoring case), also when it is dispatched before the re-render that follows an
\* earlier add of the same identifier: that second call is refused.
C5_SecondAddRejected ==
    [][Len(cities') > Len(cities) => ~findCity(cities, cities'[Len(cities')].id)]_vars

\* C6: deleteCity on a collection of length 1 raises "Cannot Delete" and leaves the
\* collection as it was, whatever id or index is named.
C6_LastLocationKept ==
    Len(closure) = 1 =>
        /\ deleteCityAlert(closure) = "Cannot Delete"
        /\ \A idToDelete \in NamedIds :
              deleteCityState(closure, cities, idToDelete) = cities
        /\ \A indexToDelete \in 0..MaxCities :
              deleteCityAtIndexState(closure, cities, indexToDelete) = cities

\* The delete of the only location was refused.
C6_Witness ==
    /\ Len(closure) = 1
    /\ cities = closure
    /\ alert = "Cannot Delete"

\* C7: addCity with an identifier whose trimmed value equals an existing id ignoring
\* case raises "City Exists" and leaves the collection unchanged.
C7_DuplicateRejected ==
    \A cityIdentifier \in Identifiers :
        (/\ trim(cityIdentifier) # <<>>
         /\ \E i \in 1..Len(closure) :
                toLowerCase(closure[i].id) = toLowerCase(trim(cityIdentifier)))
        => /\ addCityState(closure, cities, cityIdentifier) = cities
           /\ addCityAlert(closure, cityIdentifier) = "City Exists"

\* An add was refused and the three initial cities are as they were.
C7_Witness ==
    /\ alert = "City Exists"
    /\ cities = InitialCities

-----------------------------------------------------------------------------
(* PaginationController: activeIndex *)

\* C8: in every reachable state 0 <= activeIndex < length of the collection.
C8_ActiveIndexInRange == 0 <= activeIndex /\ activeIndex < Len(cities)

\* The position (from 0) of the one entry of cs that is not in ds.
RemovedIndex(cs, ds) == (CHOOSE i \in 1..Len(cs) : cs[i].id \notin Ids(ds)) - 1

\* C9: a delete that removes the entry at position r sets activeIndex to
\* max(activeIndex - 1, 0) if r <= activeIndex and leaves it unchanged if r > activeIndex.
C9_DeleteReclampsIndex ==
    [][Len(cities') < Len(cities) =>
          activeIndex' = IF RemovedIndex(cities, cities') <= activeIndex
                         THEN Max(activeIndex - 1, 0)
                         ELSE activeIndex]_vars


-----------------------------------------------------------------------------
(* WeatherCache: the fetch state of the pages *)

\* No fetchWeather call of the page is waiting for a response.
Settled(id) == ~\E f \in fetches : f.id = id

\* C3: when the fetches started for a location under the current units and API
\* language have all completed, in whatever order, the state left visible was
\* written by the one started last, not by an earlier one.
C3_LastInitiatedWins ==
    \A id \in DOMAIN pages :
        (/\ Settled(id)
         /\ pages[id].writer.units = units
         /\ pages[id].writer.lang = apiLang(locale))
        => pages[id].writer.seq = pages[id].started

\* C4: a page never shows a snapshot fetched under other preferences than the
\* current ones: weatherData is null or was fetched with the current units and
\* API language.
C4_NoStaleSnapshot ==
    \A id \in DOMAIN pages :
        pages[id].weatherData # NoWeather =>
            /\ pages[id].weatherData.units = units
            /\ pages[id].weatherData.lang = apiLang(locale)

\* C10: when units or locale changes, every tracked location has a page, every
\* page is loading, and each has started one more fetch, with the new units and
\* locale, that waits for its geocoding response.
C10_PreferenceChangeRefetchesAll ==
    [][(units' # units \/ locale' # locale) =>
          /\ DOMAIN pages' = Ids(cities')
          /\ \A id \in DOMAIN pages' :
                /\ id \in DOMAIN pages
                /\ pages'[id].loading
                /\ pages'[id].started = pages[id].started + 1
                /\ [id |-> id, seq |-> pages'[id].started, units |-> units',
                    lang |-> locale', stage |-> "geo"] \in fetches']_vars

\* A page that had shown a snapshot is loading again after a change of locale,
\* its second fetch under way.
C10_Witness ==
    \E id \in DOMAIN pages :
        /\ pages[id].started = 2
        /\ pages[id].loading
        /\ pages[id].weatherData # NoWeather
        /\ locale # DeviceLocale
        /\ \E f \in fetches : f.id = id /\ f.seq = 2 /\ f.lang = locale /\ f.stage = "geo"

\* C11: what a page shows is exactly one of the spinner (Loading), the snapshot
\* (Success) and the error text (Failed): never error and snapshot together, never
\* the snapshot while loading.
C11_OneFetchStateVisible ==
    \A id \in DOMAIN pages :
        LET p == pages[id]
        IN  /\ showsLoading(p) \/ showsWeather(p) \/ showsError(p)
            /\ ~(showsError(p) /\ showsWeather(p))
            /\ ~(showsLoading(p) /\ showsWeather(p))
            /\ ~(showsLoading(p) /\ showsError(p))

\* In this step the call f, which was waiting at `stage`, returns with a failure
\* and writes the state of its page.
EndsFailed(f, stage) ==
    /\ f.stage = stage
    /\ f \notin fetches'
    /\ f.id \in DOMAIN pages'
    /\ pages'[f.id].writer.seq = f.seq
    /\ pages'[f.id].writer.stage = stage
    /\ pages'[f.id].writer.outcome # "ok"

\* C15: a fetch of one location that ends in a failure changes the fetch state of
\* that location only: the other pages, the collection, activeIndex, units and
\* locale are as before.
C15_FailureTouchesOnePage ==
    [][\A f \in fetches :
          (EndsFailed(f, "geo") \/ EndsFailed(f, "weather")) =>
              /\ DOMAIN pages' = DOMAIN pages
              /\ \A id \in DOMAIN pages \ {f.id} : pages'[id] = pages[id]
              /\ pages'[f.id].error # ""
              /\ cities' = cities
              /\ closure' = closure
              /\ activeIndex' = activeIndex
              /\ units' = units
              /\ locale' = locale]_vars

\* One page shows an error while another shows its snapshot and a third is loading.
C15_Witness ==
    \E a, b, c \in DOMAIN pages :
        /\ pages[a].error # "" /\ ~pages[a].loading
        /\ pages[b].error = "" /\ pages[b].weatherData # NoWeather /\ ~pages[b].loading
        /\ pages[c].loading /\ pages[c].error = ""

\* The call f has no request left after this step.
NoRequestLeft(f) == ~\E g \in fetches' : g.id = f.id /\ g.seq = f.seq

\* C16 as stated: whichever way the geocoding step of a fetch fails (no candidate,
\* status not ok, network failure), the page ends with the error errorCityNotFound
\* and the fetch makes no weather request.
C16_GeocodeFailureIsCityNotFound ==
    [][\A f \in fetches :
          EndsFailed(f, "geo") =>
              /\ pages'[f.id].error = "errorCityNotFound"
              /\ NoRequestLeft(f)]_vars

\* C16 as amended: a geocoding response with no candidate or with a status that is
\* not ok ends the fetch with the error errorCityNotFound; a geocoding request that
\* fails at network level ends it with the message of the network error; in all
\* three cases the page stops loading and the fetch makes no weather request.
C16_GeocodeFailureEndsFetch ==
    [][\A f \in fetches :
          EndsFailed(f, "geo") =>
              /\ pages'[f.id].writer.outcome \in {"empty", "notOk"}
                    => pages'[f.id].error = "errorCityNotFound"
              /\ pages'[f.id].writer.outcome = "throws"
                    => pages'[f.id].error = "Network request failed"
              /\ pages'[f.id].writer.outcome \in {"empty", "notOk", "throws"}
              /\ ~pages'[f.id].loading
              /\ NoRequestLeft(f)]_vars

\* The three ways the geocoding step fails have each ended a fetch.
C16_Witness ==
    \E a, b, c \in DOMAIN pages :
        /\ pages[a].writer.stage = "geo" /\ pages[a].writer.outcome = "empty"
        /\ pages[b].writer.stage = "geo" /\ pages[b].writer.outcome = "notOk"
        /\ pages[c].writer.stage = "geo" /\ pages[c].writer.outcome = "throws"
        /\ pages[c].error = "Network request failed"

\* C17: after geocoding succeeded, a weather response with a status that is not ok
\* ends the fetch with the error errorApiKey, a network failure of the weather
\* request ends it with the message of the network error, and the two errors differ.
C17_WeatherFailureKinds ==
    [][\A f \in fetches :
          EndsFailed(f, "weather") =>
              /\ pages'[f.id].writer.outcome = "notOk"
                    => pages'[f.id].error = "errorApiKey"
              /\ pages'[f.id].writer.outcome = "throws"
                    => pages'[f.id].error = "Network request failed"
              /\ pages'[f.id].writer.outcome \in {"notOk", "throws"}
              /\ landFailure(pages[f.id], f, "notOk").error
                    # landFailure(pages[f.id], f, "throws").error]_vars

\* One page ended on a weather response that was not ok, another on a network
\* failure of the weather request.
C17_Witness ==
    \E a, b \in DOMAIN pages :
        /\ pages[a].writer.stage = "weather" /\ pages[a].writer.outcome = "notOk"
        /\ pages[a].error = "errorApiKey"
        /\ pages[b].writer.stage = "weather" /\ pages[b].writer.outcome = "throws"
        /\ pages[b].error = "Network request failed"

\* C19: when every request made comes back, with a response or with a failure, a
\* page that is loading gets to a state where it is not loading and shows a
\* snapshot or an error.
C19_FetchLeavesLoading ==
    \A id \in Ids(InitialCities) :
        (id \in DOMAIN pages /\ showsLoading(pages[id]))
            ~> (id \in DOMAIN pages => /\ ~showsLoading(pages[id])
                                       /\ showsWeather(pages[id]) \/ showsError(pages[id]))

\* A page that had started two fetches is not loading and shows an error, with all
\* its requests back.
C19_Witness ==
    \E id \in DOMAIN pages :
        /\ pages[id].started = 2
        /\ Settled(id)
        /\ ~showsLoading(pages[id])
        /\ showsError(pages[id])

-----------------------------------------------------------------------------
(* SuggestionSearch: the debounced lookup *)

\* C12: however often the text changes before the timer fires, one timer at most is
\* pending, it is for the text typed last, and firing it makes a request; a request
\* is made only by a timer that fires, one request for the text typed last, and a
\* change of the text makes none.
C12_OneLookupForLastText ==
    [][/\ Len(timers') <= 1
       /\ timers' # <<>> =>
              /\ timers'[1] = searchInput'
              /\ Len(trim(searchInput')) >= 3
              /\ fetchSuggestionsAsks(timers'[1])
       /\ lookups' \ lookups # {} =>
              /\ timers # <<>>
              /\ timers' = <<>>
              /\ searchInput' = searchInput
              /\ lookups' = lookups \cup {[seq |-> lookupCount + 1, query |-> searchInput]}
              /\ lookupCount' = lookupCount + 1
       /\ searchInput' # searchInput =>
              /\ lookups' \subseteq lookups
              /\ lookupCount' <= lookupCount]_vars

\* The text was changed to one of four characters, the timer has fired, and the one
\* request made is for that text.
C12_Witness ==
    /\ Len(searchInput) = 4
    /\ timers = <<>>
    /\ lookupCount = 1
    /\ lookups = {[seq |-> 1, query |-> searchInput]}
    /\ suggestions = <<>>

\* C20: when the text changes to one whose trimmed length is below 3, the
\* suggestions are cleared in that step and no timer is left pending, so that the
\* lookup that was scheduled is never made; the step makes no request either.
C20_ShortTextClearsAndCancels ==
    [][(searchInput' # searchInput /\ Len(trim(searchInput')) < 3) =>
          /\ suggestions' = <<>>
          /\ timers' = <<>>
          /\ lookups' \subseteq lookups
          /\ lookupCount' <= lookupCount]_vars

\* After a lookup was made for a longer text, the text is one of three characters
\* of which one is a blank; nothing is suggested and no timer is pending.
C20_Witness ==
    /\ isMenuVisible
    /\ lookupCount > 0
    /\ Len(searchInput) = 3
    /\ Len(trim(searchInput)) = 2
    /\ suggestions = <<>>
    /\ timers = <<>>

\* C14: pressing a suggestion whose "name, country" equals the id of a tracked city
\* ignoring case leaves the collection as it is, raises no "City Exists" alert and
\* asks the pager to scroll to the position of that city; the pager's report at
\* the end of a scroll sets activeIndex to the position asked for.
TrackedAt(cityIdentifier) ==
    { i \in 1..Len(closure) : toLowerCase(closure[i].id) = toLowerCase(cityIdentifier) }

C18_RequestsCarryUnits ==
    [][/\ \A f \in fetches' \ fetches : f.stage = "geo" => f.units = units'
       /\ \A r \in rowFetches' \ rowFetches : r.units = units']_vars

\* C13: after an add that appended a city, so that its timeout is pending, and with
\* no other mutation of the collection and no navigation of the user, activeIndex
\* becomes the last position of the collection, where the new city is.
C13_AddScrollsToNewCity ==
    \A n \in 1..(MaxCities + 1) :
        (scrollTimers > 0 /\ Len(cities) = n)
            ~> (activeIndex = n - 1 /\ Len(cities) = n /\ scrollTo = NoScroll)

\* 'Paris, FR' has been added to the three cities, the timeout has fired and the
\* pager has arrived at the fourth page.
C13_Witness ==
    /\ cities = Append(InitialCities,
                       City(CommaSpace(<<"P">>, <<"F">>), CommaSpace(<<"P">>, <<"F">>)))
    /\ activeIndex = Len(cities) - 1
    /\ scrollTimers = 0
    /\ scrollTo = NoScroll

-----------------------------------------------------------------------------
(* SuggestionSearch: the list of suggestions *)

\* The (name, country) pair of a candidate.
Pair(item) == <<item.name, item.country>>

\* The position in data of the first candidate with the pair of data[i].
FirstOf(data, i) ==
    CHOOSE k \in 1..i :
        /\ Pair(data[k]) = Pair(data[i])
        /\ \A j \in 1..(k - 1) : Pair(data[j]) # Pair(data[i])

\* C21: the list built from the answer to a lookup has no two entries with the same
\* (name, country) pair; every pair of the answer has its entry, which is the first
\* candidate of the answer with that pair, and the entries are in the order of
\* these first candidates. The list shown never has two entries with one pair.
C21_SuggestionsDeduplicated ==
    /\ \A data \in ApiAnswers :
          LET list == uniqueSuggestions(data)
          IN  /\ \A i, j \in 1..Len(list) : i # j => Pair(list[i]) # Pair(list[j])
              /\ \A i \in 1..Len(data) :
                    \E k \in 1..Len(list) : list[k] = data[FirstOf(data, i)]
              /\ \A k \in 1..Len(list) :
                    \E i \in 1..Len(data) :
                        /\ FirstOf(data, i) = i
                        /\ list[k] = data[i]
                        /\ \A m \in 1..(k - 1) :
                              \E h \in 1..(i - 1) : FirstOf(data, h) = h /\ list[m] = data[h]
    /\ \A i, j \in 1..Len(suggestions) :
          i # j => Pair(suggestions[i]) # Pair(suggestions[j])

\* The answer that lists two places twice each has arrived: the list shown has
\* the first candidate of each place, in the order of the answer.
C21_Witness ==
    /\ isMenuVisible
    /\ suggestions = << Suggestion(<<"P">>, <<"F">>, "a"), Suggestion(<<"L">>, <<"G">>, "") >>

\* A lookup that fails: no list of candidates comes back.
LookupFailures == LookupOutcomes \ {"list"}

\* C22: a lookup that fails, by a network failure or by a response that is not a
\* list of candidates, leaves the list of suggestions empty and changes neither
\* the collection, nor activeIndex, nor the preferences, nor the fetch state of
\* any page.
C22_FailedLookupClears ==
    [][\A l \in lookups, outcome \in LookupFailures, data \in ApiAnswers :
          fetchSuggestionsLands(l, outcome, data)
              => /\ suggestions' = <<>>
                 /\ UNCHANGED <<cities, activeIndex, units, locale, pages, fetches>>]_vars

\* A lookup issued after l has had its response already.
LaterReturned(l) ==
    \E m \in (l.seq + 1)..lookupCount : ~\E k \in lookups : k.seq = m

\* C29: the list shown is the result of the lookup issued last: the response of a
\* lookup that arrives after the response of a lookup issued later does not
\* replace the suggestions.
C29_LatestLookupWins ==
    [][\A l \in lookups, outcome \in LookupOutcomes, data \in ApiAnswers :
          (LaterReturned(l) /\ fetchSuggestionsLands(l, outcome, data))
              => suggestions' = suggestions]_vars

\* C30: whenever the trimmed text has fewer than three characters, and the effect
\* that clears the list for it has run, no suggestion is shown: the response of a
\* lookup made before does not fill the list again.
C30_ShortTextShowsNothing ==
    Len(trim(searchInput)) < 3 => suggestions = <<>>

-----------------------------------------------------------------------------
(* LocationCollection: what a successful add or delete leaves *)

\* The sequence cs with its entry at position i (from 1) taken out.
Without(cs, i) == SubSeq(cs, 1, i - 1) \o SubSeq(cs, i + 1, Len(cs))

\* C23: on a collection of two or more entries, deleteCity naming an entry leaves
\* the collection with that one entry taken out: one entry fewer, the others in
\* the order they had. The same for the variant that names the entry by position.
C23_DeleteRemovesNamedEntry ==
    Len(closure) >= 2 =>
        /\ \A idToDelete \in Ids(closure) :
              LET result == deleteCityState(closure, cities, idToDelete)
              IN  /\ Len(result) = Len(cities) - 1
                  /\ \E i \in 1..Len(cities) :
                        cities[i].id = idToDelete /\ result = Without(cities, i)
        /\ \A indexToDelete \in 0..(Len(closure) - 1) :
              deleteCityAtIndexState(closure, cities, indexToDelete)
                  = Without(cities, indexToDelete + 1)

\* 'London, GB', the second of the three cities, has been deleted: the first and
\* the third are left, in that order.
C23_Witness ==
    /\ cities = <<InitialCities[1], InitialCities[3]>>
    /\ closure = cities
    /\ alert = ""

\* C24: addCity with an identifier that is not blank and whose trimmed value is
\* not tracked leaves the collection as it was, in the same order, followed by
\* one new entry whose id is the trimmed identifier.
C24_AddAppendsTrimmed ==
    \A cityIdentifier \in Identifiers :
        (trim(cityIdentifier) # <<>> /\ ~findCity(closure, trim(cityIdentifier)))
        => LET result == addCityState(closure, cities, cityIdentifier)
           IN  /\ Len(result) = Len(cities) + 1
               /\ SubSeq(result, 1, Len(cities)) = cities
               /\ result[Len(result)].id = trim(cityIdentifier)

\* 'London, GB' has been deleted and ' london, gb' added: the two cities left
\* are followed by the new one, whose id is the identifier without the blank.
C24_Witness ==
    /\ Len(cities) = 3
    /\ SubSeq(cities, 1, 2) = <<InitialCities[1], InitialCities[3]>>
    /\ cities[3].id = CommaSpace(<<"l">>, <<"g">>)
    /\ alert = ""

\* C28: a city whose add succeeded stays in the collection until a delete names
\* it. While the re-render that follows its add is pending no row shows it, so
\* no delete can name it, and no add or delete of another city, dispatched with
\* the collection as rendered before, removes it.
C28_AddedCityStays ==
    [][\A id \in Ids(cities) \ Ids(closure) : id \in Ids(cities')]_vars

-----------------------------------------------------------------------------
(* WeatherCache: superseded fetches and structural changes *)

\* C27: while the loading flag of a page is off, no fetch started for its city
\* under the current units and API language is waiting for a response: the
\* completion of a superseded fetch does not switch off the flag that a later
\* fetch has raised.
C27_LoadingCoversCurrentFetch ==
    \A id \in DOMAIN pages :
        ~pages[id].loading =>
            ~\E f \in fetches :
                /\ f.id = id
                /\ f.units = units
                /\ apiLang(f.lang) = apiLang(locale)

\* The fetchWeather calls of the page of id that wait for a response.
FetchesOf(fs, id) == {f \in fs : f.id = id}

\* C25: an add or a delete changes neither the fetch state of a city that is in
\* the collection before and after it, nor the fetches under way for it, and
\* starts no fetch for it.
C25_OtherPagesUntouched ==
    [][cities' # cities =>
          \A id \in Ids(cities) \cap Ids(cities') :
              /\ id \in DOMAIN pages /\ id \in DOMAIN pages'
              /\ pages'[id] = pages[id]
              /\ FetchesOf(fetches', id) = FetchesOf(fetches, id)]_vars

\* 'P' has been added as the fourth city and its page waits for its first
\* response, while the pages of the first three cities show what their fetches
\* have left: a snapshot, an error, a snapshot.
C25_Witness ==
    /\ Len(cities) = 4
    /\ SubSeq(cities, 1, 3) = InitialCities
    /\ cities[4].id = <<"P">>
    /\ pages[cities[4].id] = startFetch(MountedPage)
    /\ FetchesOf(fetches, cities[4].id) # {}
    /\ showsWeather(pages[cities[1].id]) /\ ~showsLoading(pages[cities[1].id])
    /\ showsError(pages[cities[2].id]) /\ ~showsLoading(pages[cities[2].id])
    /\ showsWeather(pages[cities[3].id]) /\ ~showsLoading(pages[cities[3].id])

\* C26: what the page of a deleted city held is not used again. A delete takes
\* the page and its fetches under way with it; a city that gets a page, also one
\* that had a page before, starts loading with no snapshot and no error and with
\* one fetch, its first; and every fetch under way is one that the page now
\* mounted under its id has started.
C26_DeletedStateNotReused ==
    [][/\ \A id \in DOMAIN pages \ DOMAIN pages' : FetchesOf(fetches', id) = {}
       /\ \A id \in DOMAIN pages' \ DOMAIN pages :
             /\ pages'[id] = startFetch(MountedPage)
             /\ showsLoading(pages'[id])
             /\ ~showsWeather(pages'[id]) /\ ~showsError(pages'[id])
             /\ FetchesOf(fetches', id) = {Request(id, MountedPage, units', locale')}
       /\ \A f \in fetches' :
             f.id \in DOMAIN pages' /\ f.seq <= pages'[f.id].started]_vars

\* 'London, GB' has been deleted and added again, so that it is the last of the
\* three cities: its new page is loading, without a snapshot, its first fetch
\* under way, while the other two pages show snapshots.
C26_Witness ==
    /\ Len(cities) = 3
    /\ cities[3].id = InitialCities[2].id
    /\ pages[cities[3].id] = startFetch(MountedPage)
    /\ FetchesOf(fetches, cities[3].id) = {Request(cities[3].id, MountedPage, units, locale)}
    /\ showsWeather(pages[cities[1].id])
    /\ showsWeather(pages[cities[2].id])

====
